---- MODULE Spec2Model ----
(***************************************************************************)
(* Mirofish front end: the report API (api/report.js) with its retry       *)
(* dispatcher, the auth API (api/auth.js), the router guard and login view *)
(* (router/index.js, views/Login.vue), the settings view and the report    *)
(* history view.                                                           *)
(***************************************************************************)
EXTENDS Integers, Sequences, FiniteSets, TLC

\* ---------------------------------------------------------------- bounds
\* call slots of the report API that may be in flight or settled
MaxCalls == 2
\* call slots used when termination is checked under fairness
MaxFairCalls == 1
\* redirects after which a navigation is given up
MaxRedirects == 3
\* call slots of the auth API
MaxAuthCalls == 2
\* largest attempt budget a direct caller of requestWithRetry passes
MaxAttempts == 4

\* ------------------------------------------------------------- constants
\* report.js passes (fn, 3, 1000) at each of its three uses of the dispatcher
RetryAttempts == 3
RetryDelay == 1000
\* delays a direct caller of requestWithRetry passes
OtherDelays == {2 * RetryDelay}
Delays == {RetryDelay} \cup OtherDelays

Null == "null"

VARIABLES
  calls,        \* report API: call slot -> state of that call
  authCalls,    \* auth API: call slot -> state of that call
  storage,      \* localStorage: key -> value or Null
  route,        \* router.currentRoute.path
  hops,         \* locations the guard was asked about in the last navigation
  loginView,    \* refs of Login.vue and its pending setTimeout
  settingsView, \* refs of SettingsView.vue and its pending requests
  historyView   \* refs of ReportHistoryView.vue and its pending requests

vars == <<calls, authCalls, storage, route, hops, loginView, settingsView, historyView>>
appVars == <<storage, route, hops, loginView, settingsView, historyView>>

\* =====================================================================
\* api/report.js
\* =====================================================================
CallIds == 1..MaxCalls

\* How each exported function of report.js issues its request.
ViaRetry(n, d) == [via |-> "requestWithRetry", maxRetries |-> n, delay |-> d]
ViaService == [via |-> "service", maxRetries |-> 0, delay |-> 0]
ViaWindowOpen == [via |-> "window.open", maxRetries |-> 0, delay |-> 0]

\* generateReport with another attempt budget
generateReport_OneAttempt == ViaRetry(1, RetryDelay)
generateReport_FourAttempts == ViaRetry(RetryAttempts + 1, RetryDelay)
generateReport == ViaRetry(RetryAttempts, RetryDelay)
getReportStatus == ViaService
getAgentLog == ViaService
getConsoleLog == ViaService
getReport == ViaService
\* chatWithReport with another attempt budget
chatWithReport_TwoAttempts == ViaRetry(2, RetryDelay)
chatWithReport == ViaRetry(RetryAttempts, RetryDelay)
resumeReport == ViaRetry(RetryAttempts, RetryDelay)
listReports == ViaService
downloadReport == ViaWindowOpen
\* deleteReport wrapped in the dispatcher
deleteReport_Retried == ViaRetry(RetryAttempts, RetryDelay)
deleteReport == ViaService

ReportApis == {"generateReport", "getReportStatus", "getAgentLog", "getConsoleLog",
               "getReport", "chatWithReport", "resumeReport", "listReports",
               "downloadReport", "deleteReport"}

ReportApi(name) ==
  CASE name = "generateReport" -> generateReport
    [] name = "getReportStatus" -> getReportStatus
    [] name = "getAgentLog" -> getAgentLog
    [] name = "getConsoleLog" -> getConsoleLog
    [] name = "getReport" -> getReport
    [] name = "chatWithReport" -> chatWithReport
    [] name = "resumeReport" -> resumeReport
    [] name = "listReports" -> listReports
    [] name = "downloadReport" -> downloadReport
    [] name = "deleteReport" -> deleteReport

\* The value or failure an invocation produces is the object made by that
\* invocation: attempt k of a call yields Result(k) or Failure(k).
Result(k) == [kind |-> "result", attempt |-> k]
Failure(k) == [kind |-> "failure", attempt |-> k]
Undefined == [kind |-> "undefined", attempt |-> 0]

IdleCall == [api |-> Null, via |-> Null, maxRetries |-> 0, delay |-> 0, st |-> "idle",
             i |-> 0, log |-> <<>>, delays |-> <<>>, outcomes |-> <<>>, out |-> Undefined]

\* fn() is invoked: one request leaves for the backend.
Invoke(c) == [c EXCEPT !.st = "awaiting", !.log = Append(@, "invoke")]

\* The call of an exported function up to its first suspension.
Begin(name, plan) ==
  LET c == [IdleCall EXCEPT !.api = name, !.via = plan.via,
                            !.maxRetries = plan.maxRetries, !.delay = plan.delay]
  IN IF plan.via = "window.open"
       THEN [c EXCEPT !.st = "returned", !.log = <<"invoke">>]
       ELSE Invoke(c)

\* requestWithRetry(fn, maxRetries, delay): fn resolved in iteration i.
requestWithRetry_Resolved(c, v) ==
  [c EXCEPT !.st = "returned", !.out = v, !.log = Append(@, "ok"),
            !.outcomes = Append(@, v)]

\* as requestWithRetry_Rejected, with the attempts counted in one counter that
\* all dispatches share
RECURSIVE FailuresUpTo(_)
FailuresUpTo(id) ==
  IF id = 0 THEN 0
  ELSE FailuresUpTo(id - 1)
         + Cardinality({j \in 1..Len(calls[id].outcomes) :
                          calls[id].outcomes[j].kind = "failure"})

requestWithRetry_RejectedShared(c, e) ==
  IF FailuresUpTo(MaxCalls) >= c.maxRetries - 1
    THEN [c EXCEPT !.st = "raised", !.out = e, !.log = Append(@, "fail"),
                   !.outcomes = Append(@, e)]
    ELSE [c EXCEPT !.st = "sleeping", !.log = Append(Append(@, "fail"), "delay"),
                   !.delays = Append(@, c.delay), !.outcomes = Append(@, e)]

\* requestWithRetry: fn rejected in iteration i; the last iteration rethrows,
\* any other one starts the delay timer.
requestWithRetry_Rejected(c, e) ==
  IF c.i = c.maxRetries - 1
    THEN [c EXCEPT !.st = "raised", !.out = e, !.log = Append(@, "fail"),
                   !.outcomes = Append(@, e)]
    ELSE [c EXCEPT !.st = "sleeping", !.log = Append(Append(@, "fail"), "delay"),
                   !.delays = Append(@, c.delay), !.outcomes = Append(@, e)]

\* requestWithRetry: the delay timer fired; next iteration invokes fn again.
requestWithRetry_Wake(c) == Invoke([c EXCEPT !.i = @ + 1])

\* A direct service call: the promise of the one request is the call's promise.
service_Settled(c, x) ==
  [c EXCEPT !.st = IF x.kind = "result" THEN "returned" ELSE "raised", !.out = x,
            !.log = Append(@, IF x.kind = "result" THEN "ok" ELSE "fail"),
            !.outcomes = Append(@, x)]

Invocations(c) == Cardinality({j \in 1..Len(c.log) : c.log[j] = "invoke"})

\* ---- actions of the report API
CallReportApi(id, name) ==
  /\ calls[id].st = "idle"
  /\ \A j \in 1..(id - 1) : calls[j].st # "idle"
  /\ calls' = [calls EXCEPT ![id] = Begin(name, ReportApi(name))]
  /\ UNCHANGED <<authCalls, appVars>>

CallRequestWithRetry(id, n, d) ==
  /\ calls[id].st = "idle"
  /\ \A j \in 1..(id - 1) : calls[j].st # "idle"
  /\ calls' = [calls EXCEPT ![id] = Begin("requestWithRetry", ViaRetry(n, d))]
  /\ UNCHANGED <<authCalls, appVars>>

BackendResolves(id) ==
  /\ calls[id].st = "awaiting"
  /\ LET c == calls[id]
         v == Result(Invocations(c))
     IN calls' = [calls EXCEPT ![id] =
                    IF c.via = "requestWithRetry" THEN requestWithRetry_Resolved(c, v)
                                                  ELSE service_Settled(c, v)]
  /\ UNCHANGED <<authCalls, appVars>>

BackendRejects(id) ==
  /\ calls[id].st = "awaiting"
  /\ LET c == calls[id]
         e == Failure(Invocations(c))
     IN calls' = [calls EXCEPT ![id] =
                    IF c.via = "requestWithRetry" THEN requestWithRetry_Rejected(c, e)
                                                  ELSE service_Settled(c, e)]
  /\ UNCHANGED <<authCalls, appVars>>

DelayElapses(id) ==
  /\ calls[id].st = "sleeping"
  /\ calls' = [calls EXCEPT ![id] = requestWithRetry_Wake(calls[id])]
  /\ UNCHANGED <<authCalls, appVars>>

\* =====================================================================
\* api/auth.js
\* =====================================================================
\* A JSON body as JavaScript sees it. shape "object" is an object with the
\* fields success, error and data.token; "null" is null or undefined (reading
\* a property of it throws); "empty" is the empty string of a body-less answer.
Body(shape, success, error, token) ==
  [shape |-> shape, success |-> success, error |-> error, token |-> token]
NullBody == Body("null", FALSE, Null, Null)
EmptyBody == Body("empty", FALSE, Null, Null)
Bodies == {Body("object", TRUE, Null, "tok2"), Body("object", TRUE, Null, Null),
           Body("object", FALSE, "rejected", Null), Body("object", FALSE, Null, Null),
           NullBody, EmptyBody}

Truthy(b) == b.shape = "object"

\* What the promise of api.post / api.get / api.put settles with.
Fulfilled(b) == [settle |-> "fulfilled", hasResponse |-> TRUE, data |-> b, message |-> Null]
RejectedWith(b) == [settle |-> "rejected", hasResponse |-> TRUE, data |-> b,
                    message |-> "Request failed"]
NetworkError == [settle |-> "rejected", hasResponse |-> FALSE, data |-> NullBody,
                 message |-> "Network Error"]
Responses == {Fulfilled(b) : b \in Bodies} \cup {RejectedWith(b) : b \in Bodies}
               \cup {NetworkError}

Return(v) == [kind |-> "return", value |-> v]
Throw(m) == [kind |-> "throw", value |-> Body("object", FALSE, m, Null)]

\* try { return res.data } catch (error) { if (error.response?.data) return
\* error.response.data; return { success: false, error: error.message } }
\* as TryCatch, but the catch block ignores error.response.data
TryCatch_DropPayload(r) ==
  IF r.settle = "fulfilled"
    THEN Return(r.data)
    ELSE Return(Body("object", FALSE, r.message, Null))
TryCatch(r) ==
  IF r.settle = "fulfilled"
    THEN Return(r.data)
    ELSE IF r.hasResponse /\ Truthy(r.data)
           THEN Return(r.data)
           ELSE Return(Body("object", FALSE, r.message, Null))

login(r) == TryCatch(r)
getUser(r) == TryCatch(r)
changePassword(r) == TryCatch(r)
changeUsername(r) == TryCatch(r)

AuthApis == {"login", "getUser", "changePassword", "changeUsername"}

AuthApi(name, r) ==
  CASE name = "login" -> login(r)
    [] name = "getUser" -> getUser(r)
    [] name = "changePassword" -> changePassword(r)
    [] name = "changeUsername" -> changeUsername(r)

\* getUser, changePassword and changeUsername send the stored token.
SendsToken(name) == name # "login"

\* as logout, without the third removeItem
logout_KeepsToken(store) ==
  [store EXCEPT !.mirofish_auth = Null, !.mirofish_user = Null]
logout(store) ==
  [store EXCEPT !.mirofish_auth = Null, !.mirofish_user = Null, !.mirofish_token = Null]

AuthCallIds == 1..MaxAuthCalls

IdleAuthCall == [api |-> Null, st |-> "idle", header |-> Null, response |-> NetworkError,
                 out |-> Return(NullBody)]

CallAuthApi(id, name) ==
  /\ authCalls[id].st = "idle"
  /\ \A j \in 1..(id - 1) : authCalls[j].st # "idle"
  /\ authCalls' = [authCalls EXCEPT ![id] =
                     [IdleAuthCall EXCEPT !.api = name, !.st = "awaiting",
                        !.header = IF SendsToken(name) THEN storage.mirofish_token ELSE Null]]
  /\ UNCHANGED <<calls, appVars>>

AuthBackendAnswers(id, r) ==
  /\ authCalls[id].st = "awaiting"
  /\ LET o == AuthApi(authCalls[id].api, r)
     IN authCalls' = [authCalls EXCEPT ![id] =
                        [@ EXCEPT !.st = IF o.kind = "return" THEN "returned" ELSE "raised",
                                  !.response = r, !.out = o]]
  /\ UNCHANGED <<calls, appVars>>

NextAuthApi ==
  \/ \E id \in AuthCallIds, name \in AuthApis : CallAuthApi(id, name)
  \/ \E id \in AuthCallIds, r \in Responses : AuthBackendAnswers(id, r)

\* =====================================================================
\* router/index.js
\* =====================================================================
\* The routes table, each parameterised path with one instance of its parameter.
routes == <<
  [path |-> "/login", name |-> "Login", requiresAuth |-> FALSE],
  [path |-> "/", name |-> "Home", requiresAuth |-> TRUE],
  [path |-> "/reports", name |-> "ReportHistory", requiresAuth |-> TRUE],
  [path |-> "/process/p1", name |-> "Process", requiresAuth |-> TRUE],
  [path |-> "/simulation/s1", name |-> "Simulation", requiresAuth |-> TRUE],
  [path |-> "/simulation/s1/start", name |-> "SimulationRun", requiresAuth |-> TRUE],
  [path |-> "/report/r1", name |-> "Report", requiresAuth |-> TRUE],
  [path |-> "/interaction/r1", name |-> "Interaction", requiresAuth |-> TRUE] >>

RoutePaths == {routes[j].path : j \in 1..Len(routes)}
\* a location no route matches: to.meta is empty there
Unmatched == "/settings"
Locations == RoutePaths \cup {Unmatched}

\* to.meta.requiresAuth, undefined (falsy) where no route matches
RequiresAuth(to) == \E j \in 1..Len(routes) : routes[j].path = to /\ routes[j].requiresAuth

\* The guard: the location it passes to next(location), or Proceed for next().
Proceed == "next()"

\* a guard that calls next() for every target
beforeEach_NoCheck(to, store) == Proceed
\* a guard with the two redirect targets exchanged
beforeEach_Exchanged(to, store) ==
  LET isAuthenticated == store.mirofish_auth = "true"
  IN IF RequiresAuth(to) /\ ~isAuthenticated
       THEN "/"
       ELSE IF to = "/login" /\ isAuthenticated
              THEN "/login"
              ELSE Proceed
beforeEach(to, store) ==
  LET isAuthenticated == store.mirofish_auth = "true"
  IN IF RequiresAuth(to) /\ ~isAuthenticated
       THEN "/login"
       ELSE IF to = "/login" /\ isAuthenticated
              THEN "/"
              ELSE Proceed

\* A navigation: the guard runs for the target and again for every location
\* it redirects to; the result is the list of locations it was asked about.
\* The router gives up a navigation that keeps redirecting.
RECURSIVE Navigation(_, _, _)
Navigation(to, store, fuel) ==
  LET r == beforeEach(to, store)
  IN IF r = Proceed \/ fuel = 0 THEN <<to>> ELSE <<to>> \o Navigation(r, store, fuel - 1)

Last(seq) == seq[Len(seq)]

\* The location the router is at after the navigation `path` started at
\* `from`: the last location asked about if the guard let it through, and
\* `from` if the navigation was given up.
Landing(path, store, from) ==
  IF beforeEach(Last(path), store) = Proceed THEN Last(path) ELSE from

\* =====================================================================
\* views/Login.vue
\* =====================================================================
VALID_USERNAME == "demo"
VALID_PASSWORD == "demo123"

LoginFresh == [username |-> "", password |-> "", error |-> "", loading |-> FALSE,
               timer |-> FALSE]

\* =====================================================================
\* views/SettingsView.vue
\* =====================================================================
\* JavaScript's a || b on strings, with Null for null and undefined
Or(a, b) == IF a = Null \/ a = "" THEN b ELSE a

SettingsFresh(store) ==
  [currentUser |-> Or(store.mirofish_user, "admin"),
   newUsername |-> "", usernamePassword |-> "", usernameLoading |-> FALSE,
   usernameMessage |-> "", usernameSuccess |-> FALSE, usernameReq |-> FALSE,
   usernameSent |-> Null,
   oldPassword |-> "", newPassword |-> "", confirmPassword |-> "",
   passwordLoading |-> FALSE, passwordMessage |-> "", passwordSuccess |-> FALSE,
   passwordReq |-> FALSE]

\* =====================================================================
\* views/ReportHistoryView.vue
\* =====================================================================
HistoryUnmounted == [mounted |-> FALSE, reports |-> <<>>, loading |-> FALSE,
                     listReq |-> FALSE, deleting |-> {}]
\* const loading = ref(true); onMounted(() => loadReports())
HistoryMounted == [mounted |-> TRUE, reports |-> <<>>, loading |-> TRUE,
                   listReq |-> TRUE, deleting |-> {}]

\* ---- the router's effect on the mounted views
\* Login.vue is the component of /login and ReportHistoryView.vue that of
\* /reports: entering the route creates the component, leaving destroys it.
LoginAfter(from, to, view) == IF to = "/login" /\ from = "/login" THEN view ELSE LoginFresh
HistoryAfter(from, to, view) ==
  IF to = "/reports"
    THEN IF from = "/reports" THEN view ELSE HistoryMounted
    ELSE HistoryUnmounted

\* router.push(to) with `store` the storage at the time the guard runs
Push(to, store, lv, hv) ==
  LET path == Navigation(to, store, MaxRedirects)
      at == Landing(path, store, route)
  IN /\ hops' = path
     /\ route' = at
     /\ loginView' = LoginAfter(route, at, lv)
     /\ historyView' = HistoryAfter(route, at, hv)

\* ---- router actions
\* a link or a push of one of the views: router.push(to)
Navigate(to) ==
  /\ Push(to, storage, loginView, historyView)
  /\ UNCHANGED <<calls, authCalls, storage, settingsView>>

\* the page is loaded at location `to`: every component is created anew,
\* pending timers and requests are gone, localStorage is kept
Reload(to) ==
  LET path == Navigation(to, storage, MaxRedirects)
      at == Landing(path, storage, Unmatched)
  IN /\ hops' = path
     /\ route' = at
     /\ loginView' = LoginFresh
     /\ settingsView' = SettingsFresh(storage)
     /\ historyView' = IF at = "/reports" THEN HistoryMounted ELSE HistoryUnmounted
     /\ UNCHANGED <<calls, authCalls, storage>>

\* ---- Login.vue
TypeLogin(u, p) ==
  /\ route = "/login"
  /\ loginView' = [loginView EXCEPT !.username = u, !.password = p]
  /\ UNCHANGED <<calls, authCalls, storage, route, hops, settingsView, historyView>>

\* handleLogin up to setTimeout; the submit button is disabled while loading
handleLogin ==
  /\ route = "/login"
  /\ ~loginView.loading
  /\ loginView' = [loginView EXCEPT !.error = "", !.loading = TRUE, !.timer = TRUE]
  /\ UNCHANGED <<calls, authCalls, storage, route, hops, settingsView, historyView>>

\* what the timeout callback of handleLogin writes to localStorage
handleLogin_SetItems(store, username) ==
  [store EXCEPT !.mirofish_auth = "true", !.mirofish_user = username]

\* the callback handleLogin passed to setTimeout
handleLogin_Timeout ==
  /\ loginView.timer
  /\ LET done == [loginView EXCEPT !.loading = FALSE, !.timer = FALSE]
     IN IF loginView.username = VALID_USERNAME /\ loginView.password = VALID_PASSWORD
          THEN /\ storage' = handleLogin_SetItems(storage, loginView.username)
               /\ Push("/", storage', done, historyView)
          ELSE /\ loginView' = [done EXCEPT !.error = "bad credentials"]
               /\ UNCHANGED <<storage, route, hops, historyView>>
  /\ UNCHANGED <<calls, authCalls, settingsView>>

\* ---- SettingsView.vue
TypeUsernameForm(n, p) ==
  /\ settingsView' = [settingsView EXCEPT !.newUsername = n, !.usernamePassword = p]
  /\ UNCHANGED <<calls, authCalls, storage, route, hops, loginView, historyView>>

TypePasswordForm(o, n, c) ==
  /\ settingsView' = [settingsView EXCEPT !.oldPassword = o, !.newPassword = n,
                                          !.confirmPassword = c]
  /\ UNCHANGED <<calls, authCalls, storage, route, hops, loginView, historyView>>

\* handleChangeUsername up to its await
handleChangeUsername ==
  /\ ~settingsView.usernameLoading
  /\ settingsView' =
       IF Len(settingsView.newUsername) < 3
         THEN [settingsView EXCEPT !.usernameMessage = "username too short",
                                   !.usernameSuccess = FALSE]
         ELSE [settingsView EXCEPT !.usernameMessage = "", !.usernameLoading = TRUE,
                                   !.usernameReq = TRUE,
                                   !.usernameSent = settingsView.newUsername]
  /\ UNCHANGED <<calls, authCalls, storage, route, hops, loginView, historyView>>

\* handleChangeUsername after its await, `o` the outcome of changeUsername
handleChangeUsername_View(v, o) ==
  LET res == o.value
  IN IF o.kind = "throw" \/ res.shape = "null"
       THEN [v EXCEPT !.usernameReq = FALSE, !.usernameSent = Null]
       ELSE IF res.shape = "object" /\ res.success
              THEN [v EXCEPT !.usernameReq = FALSE, !.usernameSent = Null, !.usernameSuccess = TRUE,
                             !.usernameMessage = "username changed",
                             !.currentUser = v.newUsername,
                             !.newUsername = "", !.usernamePassword = "",
                             !.usernameLoading = FALSE]
              ELSE [v EXCEPT !.usernameReq = FALSE, !.usernameSent = Null, !.usernameSuccess = FALSE,
                             !.usernameMessage =
                                Or(IF res.shape = "object" THEN res.error ELSE Null,
                                   "change failed"),
                             !.usernameLoading = FALSE]

\* as handleChangeUsername_Store, but a failed change drops the session
handleChangeUsername_StoreOrDrop(store, v, o) ==
  LET res == o.value
  IN IF o.kind = "return" /\ res.shape = "object" /\ res.success
       THEN [store EXCEPT !.mirofish_user = v.newUsername,
                          !.mirofish_token = IF res.token # Null THEN res.token ELSE @]
       ELSE [store EXCEPT !.mirofish_auth = Null]

handleChangeUsername_Store(store, v, o) ==
  LET res == o.value
  IN IF o.kind = "return" /\ res.shape = "object" /\ res.success
       THEN [store EXCEPT !.mirofish_user = v.newUsername,
                          !.mirofish_token = IF res.token # Null THEN res.token ELSE @]
       ELSE store

ChangeUsernameAnswers(r) ==
  /\ settingsView.usernameReq
  /\ LET o == changeUsername(r)
     IN /\ settingsView' = handleChangeUsername_View(settingsView, o)
        /\ storage' = handleChangeUsername_Store(storage, settingsView, o)
  /\ UNCHANGED <<calls, authCalls, route, hops, loginView, historyView>>

\* as handleChangePassword, without the check of the new password's length
handleChangePassword_NoLengthCheck ==
  /\ ~settingsView.passwordLoading
  /\ settingsView' =
       IF settingsView.newPassword # settingsView.confirmPassword
         THEN [settingsView EXCEPT !.passwordMessage = "passwords differ",
                                   !.passwordSuccess = FALSE]
         ELSE [settingsView EXCEPT !.passwordMessage = "", !.passwordLoading = TRUE,
                                   !.passwordReq = TRUE]
  /\ UNCHANGED <<calls, authCalls, storage, route, hops, loginView, historyView>>

\* handleChangePassword up to its await
handleChangePassword ==
  /\ ~settingsView.passwordLoading
  /\ settingsView' =
       IF settingsView.newPassword # settingsView.confirmPassword
         THEN [settingsView EXCEPT !.passwordMessage = "passwords differ",
                                   !.passwordSuccess = FALSE]
         ELSE IF Len(settingsView.newPassword) < 6
                THEN [settingsView EXCEPT !.passwordMessage = "password too short",
                                          !.passwordSuccess = FALSE]
                ELSE [settingsView EXCEPT !.passwordMessage = "", !.passwordLoading = TRUE,
                                          !.passwordReq = TRUE]
  /\ UNCHANGED <<calls, authCalls, storage, route, hops, loginView, historyView>>

\* handleChangePassword after its await, `o` the outcome of changePassword
handleChangePassword_View(v, o) ==
  LET res == o.value
  IN IF o.kind = "throw" \/ res.shape = "null"
       THEN [v EXCEPT !.passwordReq = FALSE]
       ELSE IF res.shape = "object" /\ res.success
              THEN [v EXCEPT !.passwordReq = FALSE, !.passwordSuccess = TRUE,
                             !.passwordMessage = "password changed",
                             !.oldPassword = "", !.newPassword = "",
                             !.confirmPassword = "", !.passwordLoading = FALSE]
              ELSE [v EXCEPT !.passwordReq = FALSE, !.passwordSuccess = FALSE,
                             !.passwordMessage =
                                Or(IF res.shape = "object" THEN res.error ELSE Null,
                                   "change failed"),
                             !.passwordLoading = FALSE]

ChangePasswordAnswers(r) ==
  /\ settingsView.passwordReq
  /\ settingsView' = handleChangePassword_View(settingsView, changePassword(r))
  /\ UNCHANGED <<calls, authCalls, storage, route, hops, loginView, historyView>>

handleLogout ==
  /\ storage' = logout(storage)
  /\ Push("/login", storage', loginView, historyView)
  /\ UNCHANGED <<calls, authCalls, settingsView>>

\* ---- ReportHistoryView.vue
\* What a promise of service.get / service.delete settles with, as the view
\* reads it: res.success and res.data.
ListResult(settle, shape, success, hasData, data) ==
  [settle |-> settle, shape |-> shape, success |-> success, hasData |-> hasData,
   data |-> data]
ServiceRejected == ListResult("rejected", "null", FALSE, FALSE, <<>>)
ServiceNull == ListResult("fulfilled", "null", FALSE, FALSE, <<>>)
ServiceFailed == ListResult("fulfilled", "object", FALSE, FALSE, <<>>)
ServiceOkNoData == ListResult("fulfilled", "object", TRUE, FALSE, <<>>)
ServiceOk(data) == ListResult("fulfilled", "object", TRUE, TRUE, data)

\* loadReports after its await: try / catch / finally
loadReports_Resumed(v, res) ==
  LET kept == [v EXCEPT !.listReq = FALSE, !.loading = FALSE]
  IN IF res.settle = "fulfilled" /\ res.shape = "object" /\ res.success /\ res.hasData
       THEN [kept EXCEPT !.reports = res.data]
       ELSE kept

ListAnswers(res) ==
  /\ historyView.listReq
  /\ historyView' = loadReports_Resumed(historyView, res)
  /\ UNCHANGED <<calls, authCalls, storage, route, hops, loginView, settingsView>>

ReportIds(v) == {v.reports[j] : j \in 1..Len(v.reports)}

Filter(seq, id) == SelectSeq(seq, LAMBDA r : r # id)

\* downloadReport(reportId): window.open, nothing of the view changes
handleDownload(reportId) ==
  /\ reportId \in ReportIds(historyView)
  /\ UNCHANGED <<calls, authCalls, storage, route, hops, loginView, settingsView,
                 historyView>>

\* handleDelete up to its await; `confirmed` is the answer to confirm()
handleDelete(reportId, confirmed) ==
  /\ reportId \in ReportIds(historyView)
  /\ historyView' = IF confirmed
                      THEN [historyView EXCEPT !.deleting = @ \cup {reportId}]
                      ELSE historyView
  /\ UNCHANGED <<calls, authCalls, storage, route, hops, loginView, settingsView>>

\* as handleDelete_Resumed, removing the report whatever the answer says
handleDelete_Resumed_AnyAnswer(v, reportId, res) ==
  LET kept == [v EXCEPT !.deleting = @ \ {reportId}]
  IN IF res.settle = "fulfilled"
       THEN [kept EXCEPT !.reports = Filter(@, reportId)]
       ELSE kept

\* handleDelete after its await
handleDelete_Resumed(v, reportId, res) ==
  LET kept == [v EXCEPT !.deleting = @ \ {reportId}]
  IN IF res.settle = "fulfilled" /\ res.shape = "object" /\ res.success
       THEN [kept EXCEPT !.reports = Filter(@, reportId)]
       ELSE kept

DeleteAnswers(reportId, res) ==
  /\ reportId \in historyView.deleting
  /\ historyView' = handleDelete_Resumed(historyView, reportId, res)
  /\ UNCHANGED <<calls, authCalls, storage, route, hops, loginView, settingsView>>

Init ==
  /\ calls = [id \in CallIds |-> IdleCall]
  /\ storage = [mirofish_auth |-> Null, mirofish_user |-> Null, mirofish_token |-> Null]
  /\ authCalls = [id \in AuthCallIds |-> IdleAuthCall]
  /\ route = "/login"
  /\ hops = <<"/login">>
  /\ loginView = LoginFresh
  /\ settingsView = SettingsFresh(storage)
  /\ historyView = HistoryUnmounted

\* ---- what the user and the backend may do to the application
LoginInputs == {<<"demo", "demo123">>, <<"demo", "wrong">>}
UsernameInputs == {<<"alice", "pw">>}
PasswordInputs == {<<"pw", "secret1", "secret1">>}
ReportLists == {<<"r1">>}
ServiceResults == {ServiceRejected, ServiceNull, ServiceFailed, ServiceOkNoData}
                    \cup {ServiceOk(l) : l \in ReportLists}

NextApp ==
  \/ \E to \in RoutePaths : Navigate(to)
  \/ \E to \in Locations : Reload(to)
  \/ \E inp \in LoginInputs : TypeLogin(inp[1], inp[2])
  \/ handleLogin
  \/ handleLogin_Timeout
  \/ \E inp \in UsernameInputs : TypeUsernameForm(inp[1], inp[2])
  \/ \E inp \in PasswordInputs : TypePasswordForm(inp[1], inp[2], inp[3])
  \/ handleChangeUsername
  \/ \E r \in Responses : ChangeUsernameAnswers(r)
  \/ handleChangePassword
  \/ \E r \in Responses : ChangePasswordAnswers(r)
  \/ handleLogout
  \/ \E res \in ServiceResults : ListAnswers(res)
  \/ \E id \in ReportIds(historyView) : handleDownload(id)
  \/ \E id \in ReportIds(historyView), confirmed \in BOOLEAN : handleDelete(id, confirmed)
  \/ \E id \in historyView.deleting, res \in ServiceResults : DeleteAnswers(id, res)

SpecApp == Init /\ [][NextApp]_vars

\* The session alone: router, login, logout and the change of the username.
NextSession ==
  \/ \E to \in RoutePaths : Navigate(to)
  \/ \E to \in Locations : Reload(to)
  \/ \E inp \in LoginInputs : TypeLogin(inp[1], inp[2])
  \/ handleLogin
  \/ handleLogin_Timeout
  \/ \E inp \in UsernameInputs : TypeUsernameForm(inp[1], inp[2])
  \/ handleChangeUsername
  \/ \E r \in Responses : ChangeUsernameAnswers(r)
  \/ handleLogout

SpecSession == Init /\ [][NextSession]_vars

SpecAuthApi == Init /\ [][NextAuthApi]_vars

\* The report history of a signed-in user: lists of several reports, one of
\* them with a report id twice, and any number of deletions in flight.
HistoryLists == {<<"r1", "r2", "r3">>, <<"r1", "r2", "r1">>}
HistoryResults == {ServiceRejected, ServiceNull, ServiceFailed, ServiceOkNoData}
                    \cup {ServiceOk(l) : l \in HistoryLists}

NextHistory ==
  \/ TypeLogin(VALID_USERNAME, VALID_PASSWORD)
  \/ handleLogin
  \/ handleLogin_Timeout
  \/ \E to \in {"/", "/reports"} : Navigate(to)
  \/ Reload("/reports")
  \/ handleLogout
  \/ \E res \in HistoryResults : ListAnswers(res)
  \/ \E id \in ReportIds(historyView) : handleDownload(id)
  \/ \E id \in ReportIds(historyView), confirmed \in BOOLEAN : handleDelete(id, confirmed)
  \/ \E id \in historyView.deleting, res \in HistoryResults : DeleteAnswers(id, res)

SpecHistory == Init /\ [][NextHistory]_vars

\* The settings view with a signed-in or signed-out user: both forms, with
\* names and passwords on either side of the length checks.
SettingsLogin == <<VALID_USERNAME, VALID_PASSWORD>>
SettingsUsernames == {<<"al", "pw">>, <<"alice", "pw">>, <<"bobby", "pw">>}
SettingsPasswords == {<<"pw", "secret1", "secret1">>, <<"pw", "secret1", "secret2">>,
                      <<"pw", "12345", "12345">>}

NextSettings ==
  \/ TypeLogin(SettingsLogin[1], SettingsLogin[2])
  \/ handleLogin
  \/ handleLogin_Timeout
  \/ \E inp \in SettingsUsernames : TypeUsernameForm(inp[1], inp[2])
  \/ \E inp \in SettingsPasswords : TypePasswordForm(inp[1], inp[2], inp[3])
  \/ handleChangeUsername
  \/ \E r \in Responses : ChangeUsernameAnswers(r)
  \/ handleChangePassword
  \/ \E r \in Responses : ChangePasswordAnswers(r)
  \/ handleLogout

SpecSettings == Init /\ [][NextSettings]_vars

NextReport ==
  \/ \E id \in CallIds, name \in ReportApis : CallReportApi(id, name)
  \/ \E id \in CallIds, n \in 1..MaxAttempts, d \in OtherDelays :
       CallRequestWithRetry(id, n, d)
  \/ \E id \in CallIds : BackendResolves(id)
  \/ \E id \in CallIds : BackendRejects(id)
  \/ \E id \in CallIds : DelayElapses(id)

SpecReport == Init /\ [][NextReport]_vars

\* The same steps over the first MaxFairCalls call slots.
FairIds == 1..MaxFairCalls

NextFairReport ==
  \/ \E id \in FairIds, name \in ReportApis : CallReportApi(id, name)
  \/ \E id \in FairIds, n \in 1..MaxAttempts, d \in Delays :
       CallRequestWithRetry(id, n, d)
  \/ \E id \in FairIds : BackendResolves(id)
  \/ \E id \in FairIds : BackendRejects(id)
  \/ \E id \in FairIds : DelayElapses(id)

\* Every request the backend has received is answered, and every timer fires.
FairSpecReport ==
  /\ Init /\ [][NextFairReport]_vars
  /\ \A id \in FairIds : WF_vars(BackendResolves(id) \/ BackendRejects(id))
  /\ \A id \in FairIds : WF_vars(DelayElapses(id))

\* =====================================================================
\* Properties of the retry dispatcher and the report API
\* =====================================================================
Dispatched(c) == c.via = "requestWithRetry"
Settled(c) == c.st \in {"returned", "raised"}

\* The log of a dispatch whose attempts 1..k-1 failed: each failed attempt is
\* invoke, fail, delay; attempt k is invoke followed by `last`.
LogShape(c, k, final) ==
  /\ Len(c.log) = 3 * (k - 1) + 2
  /\ \A j \in 1..(k - 1) : /\ c.log[3 * j - 2] = "invoke"
                           /\ c.log[3 * j - 1] = "fail"
                           /\ c.log[3 * j] = "delay"
  /\ c.log[3 * k - 2] = "invoke"
  /\ c.log[3 * k - 1] = final

\* C1: a dispatch with N attempts and delay D whose operation failed on
\* attempts 1..k-1 and succeeded on attempt k made exactly k invocations, none
\* after the success, returned the result of attempt k, and waited exactly k-1
\* times, D each time, each wait between two consecutive invocations;
\* generateReport and chatWithReport dispatch with N = 3 and D = 1000.
C1_SuccessOnAttemptK ==
  \A id \in CallIds :
    LET c == calls[id]
        k == Len(c.outcomes)
    IN /\ (Dispatched(c) /\ c.st = "returned") =>
            /\ k \in 1..c.maxRetries
            /\ \A j \in 1..(k - 1) : c.outcomes[j] = Failure(j)
            /\ c.outcomes[k] = Result(k)
            /\ Invocations(c) = k
            /\ c.out = Result(k)
            /\ Len(c.delays) = k - 1
            /\ \A j \in 1..(k - 1) : c.delays[j] = c.delay
            /\ LogShape(c, k, "ok")
       /\ c.api \in {"generateReport", "chatWithReport"} =>
            Dispatched(c) /\ c.maxRetries = 3 /\ c.delay = 1000

\* a generateReport dispatch failed twice and returned the third attempt's result
C1_Witness ==
  \E id \in CallIds :
    /\ calls[id].api = "generateReport" /\ calls[id].st = "returned"
    /\ calls[id].out = Result(3) /\ calls[id].delays = <<1000, 1000>>

\* C2: a dispatch with N attempts whose operation failed on every attempt made
\* exactly N invocations and N-1 delays, the log ends with the failure and not
\* with a delay, and the failure raised to the caller is the one of attempt N;
\* for chatWithReport N is 3.
C2_ExhaustedRaisesLastFailure ==
  \A id \in CallIds :
    LET c == calls[id]
        n == c.maxRetries
    IN (Dispatched(c) /\ c.st = "raised") =>
         /\ Len(c.outcomes) = n
         /\ \A j \in 1..n : c.outcomes[j] = Failure(j)
         /\ Invocations(c) = n
         /\ Len(c.delays) = n - 1
         /\ \A j \in 1..(n - 1) : c.delays[j] = c.delay
         /\ LogShape(c, n, "fail")
         /\ c.out = Failure(n)
         /\ c.api = "chatWithReport" => Invocations(c) = 3 /\ c.out = Failure(3)

\* a chatWithReport dispatch failed three times and raised the third failure
C2_Witness ==
  \E id \in CallIds :
    /\ calls[id].api = "chatWithReport" /\ calls[id].st = "raised"
    /\ calls[id].out = Failure(3) /\ Invocations(calls[id]) = 3

PassThroughOnce(c) ==
  /\ ~Dispatched(c)
  /\ Invocations(c) = 1
  /\ Len(c.delays) = 0

\* C3 as stated: of the report API only generateReport and chatWithReport are
\* dispatched with retry; every other call, resumeReport included, issues
\* exactly one request and is never retried.
C3_OnlyGenerateAndChatRetry ==
  \A id \in CallIds :
    LET c == calls[id]
    IN c.api \in ReportApis =>
         IF c.api \in {"generateReport", "chatWithReport"}
           THEN Dispatched(c)
           ELSE PassThroughOnce(c)

\* C3 amended: generateReport, chatWithReport and resumeReport are dispatched
\* with retry; every other report API call issues exactly one request, whatever
\* its outcome.
C3_RetryOnlyGenerateChatResume ==
  \A id \in CallIds :
    LET c == calls[id]
    IN c.api \in ReportApis =>
         IF c.api \in {"generateReport", "chatWithReport", "resumeReport"}
           THEN Dispatched(c)
           ELSE PassThroughOnce(c)

\* a deleteReport call failed and stays at its single request
C3_Witness ==
  \E id \in CallIds :
    /\ calls[id].api = "deleteReport" /\ calls[id].st = "raised"
    /\ Invocations(calls[id]) = 1

\* C10: when every invocation completes and every timer fires, a dispatch that
\* is awaiting its operation or sleeping eventually returns or raises, and no
\* dispatch ever makes more invocations than its budget (3 for generateReport).
C10_DispatchTerminates ==
  /\ \A id \in CallIds :
       (Dispatched(calls[id]) /\ ~Settled(calls[id])) ~> Settled(calls[id])
  /\ [](\A id \in CallIds :
          /\ Dispatched(calls[id]) => Invocations(calls[id]) <= calls[id].maxRetries
          /\ calls[id].api = "generateReport" => Invocations(calls[id]) <= 3)

\* a dispatch is asleep between two attempts, with attempts left
C10_Witness ==
  \E id \in CallIds :
    /\ Dispatched(calls[id]) /\ calls[id].st = "sleeping"
    /\ Invocations(calls[id]) = 2 /\ calls[id].maxRetries = 3

\* =====================================================================
\* Properties of the session, the router guard and the views
\* =====================================================================
NoSession == [mirofish_auth |-> Null, mirofish_user |-> Null, mirofish_token |-> Null]
IsAuthenticated == storage.mirofish_auth = "true"

\* C4: a navigation to a route marked requiresAuth made while mirofish_auth is
\* not 'true' is redirected to /login, and the application is never on a
\* protected route (any route of the table but /login) without the flag.
C4_ProtectedNeedsFlag ==
  /\ (RequiresAuth(hops[1]) /\ ~IsAuthenticated) => (Len(hops) >= 2 /\ hops[2] = "/login")
  /\ \A j \in 1..Len(routes) :
       (routes[j].path # "/login" /\ route = routes[j].path) => IsAuthenticated

\* after a logout, a navigation to /reports ended on /login
C4_Witness ==
  /\ hops = <<"/reports", "/login">> /\ route = "/login"
  /\ storage = NoSession /\ settingsView.currentUser = "demo"

\* C5 as stated: whenever the authenticated flag is 'true', a username and a
\* token are stored as well.
C5_FlagImpliesUserAndToken ==
  IsAuthenticated => (storage.mirofish_user # Null /\ storage.mirofish_token # Null)

KeyRemoved(k) == storage[k] # Null /\ storage'[k] = Null

\* C6: logout leaves none of the three keys in storage, and any step that
\* removes one of the keys removes all three.
C6_LogoutClearsAll ==
  [][/\ handleLogout => storage' = NoSession
     /\ (\E k \in DOMAIN storage : KeyRemoved(k)) => storage' = NoSession]_vars

\* a session with a changed username was logged out: nothing is stored
C6_Witness ==
  /\ storage = NoSession /\ route = "/login"
  /\ settingsView.currentUser = "alice" /\ settingsView.usernameMessage = "username changed"

\* C7: a step that finds mirofish_auth 'true' and leaves it otherwise is a
\* logout; navigations, reloads, changes of username or password (answered
\* with success, an error payload, nothing or a transport failure) and the
\* report list, download and delete calls leave the flag as it is.
C7_FlagKeptUntilLogout ==
  [][(IsAuthenticated /\ storage'.mirofish_auth # "true") => handleLogout]_vars

\* logged in, on /reports, the list call answered without data and a change of
\* the username rejected by the backend
C7_Witness ==
  /\ IsAuthenticated /\ route = "/reports"
  /\ ~historyView.loading /\ historyView.reports = <<>>
  /\ settingsView.usernameMessage = "rejected" /\ settingsView.currentUser = "demo"

\* C8: a settled call of login, getUser, changePassword or changeUsername has
\* returned, never raised: the response body when the request succeeded, the
\* error payload when it failed with one, and otherwise
\* {success: false, error: <message of the failure>}.
C8_AuthCallsNeverReject ==
  \A id \in AuthCallIds :
    LET c == authCalls[id]
        r == c.response
    IN c.st \notin {"idle", "awaiting"} =>
         /\ c.st = "returned"
         /\ c.out.kind = "return"
         /\ r.settle = "fulfilled" => c.out.value = r.data
         /\ (r.settle = "rejected" /\ r.hasResponse /\ r.data.shape = "object") =>
              c.out.value = r.data
         /\ (r.settle = "rejected" /\ ~(r.hasResponse /\ r.data.shape = "object")) =>
              c.out.value = [shape |-> "object", success |-> FALSE, error |-> r.message,
                             token |-> Null]

\* a changeUsername call failed with an error payload and returned it, and a
\* login call failed without a response and returned the fallback
C8_Witness ==
  /\ authCalls[1].api = "changeUsername" /\ authCalls[1].st = "returned"
  /\ authCalls[1].response = RejectedWith(Body("object", FALSE, "rejected", Null))
  /\ authCalls[1].out.value.error = "rejected"
  /\ authCalls[2].api = "login" /\ authCalls[2].st = "returned"
  /\ authCalls[2].response = NetworkError
  /\ authCalls[2].out.value.error = "Network Error"

\* C9 as stated, in the form a finite run decides: a loading flag is true
\* only while its handler still has its timer or its request outstanding.
C9_LoadingOnlyWhilePending ==
  /\ loginView.loading => loginView.timer
  /\ settingsView.usernameLoading => settingsView.usernameReq
  /\ settingsView.passwordLoading => settingsView.passwordReq
  /\ historyView.loading => historyView.listReq

\* ---- concurrent dispatches
FailuresOf(c) == Cardinality({j \in 1..Len(c.outcomes) : c.outcomes[j].kind = "failure"})

\* The state a dispatch is in, from its own budget and the outcomes of its own
\* operation alone; `asleep` tells whether its delay timer is still running.
OwnState(c, asleep) ==
  LET n == Len(c.outcomes)
  IN IF n > 0 /\ c.outcomes[n].kind = "result" THEN "returned"
     ELSE IF n = c.maxRetries THEN "raised"
     ELSE IF n > 0 /\ asleep THEN "sleeping"
     ELSE "awaiting"

OwnCounts(c) ==
  /\ c.st = OwnState(c, c.st = "sleeping")
  /\ c.i = Len(c.outcomes) - (IF c.st \in {"awaiting"} THEN 0 ELSE 1)
  /\ Invocations(c) = Len(c.outcomes) + (IF c.st = "awaiting" THEN 1 ELSE 0)
  /\ Len(c.delays) = FailuresOf(c) - (IF c.st = "raised" THEN 1 ELSE 0)
  /\ Settled(c) => c.out = c.outcomes[Len(c.outcomes)]
  /\ \A j \in 1..Len(c.outcomes) :
       c.outcomes[j].attempt = j /\ (j < Len(c.outcomes) => c.outcomes[j].kind = "failure")

\* what another call can do while a dispatch sleeps
CanProceed(j) ==
  /\ calls[j].st = "awaiting" => (ENABLED BackendResolves(j) /\ ENABLED BackendRejects(j))
  /\ calls[j].st = "sleeping" => ENABLED DelayElapses(j)
  /\ (calls[j].st = "idle" /\ \A h \in 1..(j - 1) : calls[h].st # "idle") =>
       ENABLED CallReportApi(j, "chatWithReport")

\* C11: with several dispatches in flight, interleaved in any order, the
\* invocations, the delays and the outcome of each follow from its own budget
\* and the outcomes of its own operation; a step of one call changes no other
\* call; and while a dispatch sleeps every other call can take its next step.
C11_DispatchesIndependent ==
  /\ [](\A id \in CallIds :
          /\ Dispatched(calls[id]) => OwnCounts(calls[id])
          /\ calls[id].st = "sleeping" => \A j \in CallIds \ {id} : CanProceed(j))
  /\ [][\A id \in CallIds :
          calls'[id] # calls[id] => \A j \in CallIds \ {id} : calls'[j] = calls[j]]_vars

\* chatWithReport sleeps after its second failure while resumeReport, started
\* after it, has returned the result of its second attempt
C11_Witness ==
  /\ calls[1].api = "chatWithReport" /\ calls[1].st = "sleeping"
  /\ Len(calls[1].delays) = 2
  /\ calls[2].api = "resumeReport" /\ calls[2].st = "returned"
  /\ calls[2].out = Result(2)

\* ---- the settings view and the session keys
\* the backend result of a change of the username has success true
ChangeSucceeded(r) ==
  LET o == changeUsername(r)
  IN o.kind = "return" /\ o.value.shape = "object" /\ o.value.success

\* C12 as stated: a change of the username answered with success true stores
\* the submitted new username as mirofish_user, replaces mirofish_token exactly
\* when the result carries a token, and leaves mirofish_auth as it is; a failed
\* change of the username and every step of a change of the password leave the
\* three keys as they are.
C12_UsernameChangeWrites ==
  [][/\ \A r \in Responses :
          ChangeUsernameAnswers(r) =>
            IF ChangeSucceeded(r)
              THEN /\ storage'.mirofish_user = settingsView.usernameSent
                   /\ storage'.mirofish_token =
                        (IF changeUsername(r).value.token # Null
                           THEN changeUsername(r).value.token
                           ELSE storage.mirofish_token)
                   /\ storage'.mirofish_auth = storage.mirofish_auth
              ELSE storage' = storage
     /\ handleChangeUsername => storage' = storage
     /\ handleChangePassword => storage' = storage
     /\ (\E r \in Responses : ChangePasswordAnswers(r)) => storage' = storage]_vars

\* ---- the guard's redirects
\* C13: for either value of the flag the guard settles a navigation after at
\* most one redirect: with the flag, /login is redirected to / ; without it, a
\* protected route is redirected to /login; any other target is let through
\* at once; and the guard lets the target of its redirect through, so the
\* application is at the last location the guard was asked about.
C13_GuardSettlesInOneRedirect ==
  /\ Len(hops) <= 2
  /\ beforeEach(Last(hops), storage) = Proceed
  /\ route = Last(hops)
  /\ IF hops[1] = "/login" /\ IsAuthenticated
       THEN hops = <<"/login", "/">>
       ELSE IF RequiresAuth(hops[1]) /\ ~IsAuthenticated
              THEN hops = <<hops[1], "/login">>
              ELSE Len(hops) = 1

\* signed in, a navigation to /login ended on /
C13_Witness ==
  /\ IsAuthenticated /\ storage.mirofish_user = "demo"
  /\ hops = <<"/login", "/">> /\ route = "/"

\* ---- deleting reports
RECURSIVE Without(_, _)
Without(seq, id) ==
  IF seq = <<>> THEN <<>>
  ELSE IF Head(seq) = id THEN Without(Tail(seq), id)
  ELSE <<Head(seq)>> \o Without(Tail(seq), id)

DeleteSucceeded(res) == res.settle = "fulfilled" /\ res.shape = "object" /\ res.success

\* C14: the answer to a delete request removes from the list exactly the
\* entries with the id of that request when it says success, the others keeping
\* their order, and nothing when it does not or when the request failed; a
\* delete the user did not confirm sends nothing and changes nothing; and, with
\* any number of deletions in flight, a loaded list changes only by the
\* successful answer to a confirmed delete.
C14_DeleteOnlyOnConfirmedSuccess ==
  [][/\ \A id \in historyView.deleting, res \in HistoryResults :
          DeleteAnswers(id, res) =>
            historyView'.reports = IF DeleteSucceeded(res)
                                     THEN Without(historyView.reports, id)
                                     ELSE historyView.reports
     /\ \A id \in ReportIds(historyView), confirmed \in BOOLEAN :
          handleDelete(id, confirmed) =>
            /\ historyView'.reports = historyView.reports
            /\ ~confirmed => historyView' = historyView
     /\ (/\ historyView.mounted /\ ~historyView.listReq
         /\ historyView'.mounted /\ ~historyView'.listReq
         /\ historyView'.reports # historyView.reports) =>
          \E id \in historyView.deleting \cap ReportIds(historyView) :
            /\ historyView'.reports = Without(historyView.reports, id)
            /\ \E res \in HistoryResults : DeleteSucceeded(res) /\ DeleteAnswers(id, res)]_vars

\* both entries of r1 were removed from the list r1, r2, r1 while the
\* deletion of r2 is still in flight
C14_Witness ==
  /\ route = "/reports" /\ historyView.mounted /\ ~historyView.loading
  /\ historyView.reports = <<"r2">> /\ historyView.deleting = {"r2"}


\* ---- validation in the settings view
FormFields(v) ==
  <<v.newUsername, v.usernamePassword, v.oldPassword, v.newPassword, v.confirmPassword>>

\* C15: a change of the password whose new password differs from its
\* confirmation or is shorter than 6 characters, and a change of the username
\* whose new username is shorter than 3 characters, send no request, set an
\* error message with the success flag false, leave the loading flag false, and
\* leave the form fields and the three stored session keys as they are.
C15_ValidationRejectsBeforeRequest ==
  [][/\ (handleChangeUsername /\ Len(settingsView.newUsername) < 3) =>
          /\ ~settingsView'.usernameReq /\ settingsView'.usernameSent = Null
          /\ settingsView'.usernameMessage = "username too short"
          /\ ~settingsView'.usernameSuccess
          /\ ~settingsView'.usernameLoading
          /\ FormFields(settingsView') = FormFields(settingsView)
          /\ storage' = storage
     /\ (handleChangePassword
           /\ (settingsView.newPassword # settingsView.confirmPassword
                 \/ Len(settingsView.newPassword) < 6)) =>
          /\ ~settingsView'.passwordReq
          /\ settingsView'.passwordMessage \in {"passwords differ", "password too short"}
          /\ ~settingsView'.passwordSuccess
          /\ ~settingsView'.passwordLoading
          /\ FormFields(settingsView') = FormFields(settingsView)
          /\ storage' = storage]_vars

\* signed in as demo, a too short username and a too short password were
\* submitted and rejected, nothing was sent and the fields are still filled
C15_Witness ==
  /\ storage.mirofish_auth = "true" /\ storage.mirofish_user = "demo"
  /\ settingsView.newUsername = "al" /\ settingsView.usernameMessage = "username too short"
  /\ ~settingsView.usernameReq /\ ~settingsView.usernameLoading
  /\ settingsView.newPassword = "12345" /\ settingsView.confirmPassword = "12345"
  /\ settingsView.passwordMessage = "password too short"
  /\ ~settingsView.passwordReq /\ ~settingsView.passwordLoading

====
